---- MODULE Spec2Model ----
(***************************************************************************)
(* Model of run_camoufox.py: the instance launch orchestrator.             *)
(* Strings are tuples of one-character strings, a resolved path is a tuple  *)
(* of components, a dict is a function from keys to strings.               *)
(***************************************************************************)
EXTENDS Integers, Sequences, FiniteSets, TLC

\* ---------------------------------------------------------------- bounds
MaxEntries == 3

\* ------------------------------------------------------- program constants
PacingSeconds == 30

\* ------------------------------------------------------------ None values
None == <<"<None>">>
NoneSettings == [k \in {"<None>"} |-> <<>>]
NoneProfiles == <<NoneSettings>>

\* --------------------------------------------------------- string helpers
IsSpace(c) == c = " "

RECURSIVE LStrip(_)
LStrip(s) == IF s # <<>> /\ IsSpace(Head(s)) THEN LStrip(Tail(s)) ELSE s

RECURSIVE RStrip(_)
RStrip(s) ==
    IF s # <<>> /\ IsSpace(s[Len(s)]) THEN RStrip(SubSeq(s, 1, Len(s) - 1)) ELSE s

Strip(s) == RStrip(LStrip(s))

LowerChar(c) ==
    CASE c = "J" -> "j" [] c = "S" -> "s" [] c = "O" -> "o" [] c = "N" -> "n"
      [] c = "B" -> "b" [] OTHER -> c

Lower(s) == [n \in 1..Len(s) |-> LowerChar(s[n])]

EndsWith(s, suf) ==
    /\ Len(s) >= Len(suf)
    /\ SubSeq(s, Len(s) - Len(suf) + 1, Len(s)) = suf

DotJson == <<".", "j", "s", "o", "n">>

IsJsonName(f) == EndsWith(Lower(f), DotJson)

\* os.path.basename: the part after the last separator
Basename(p) ==
    LET seps == {n \in 1..Len(p) : p[n] = "/"}
        last == IF seps = {} THEN 0 ELSE CHOOSE n \in seps : \A m \in seps : m <= n
    IN SubSeq(p, last + 1, Len(p))

\* ------------------------------------------------------------ environment
\* Variant: the emptiness test strips, the returned value does not
_clean_env_value_KeepsRaw(raw) ==
    IF raw = None THEN None
    ELSE IF Strip(raw) = <<>> THEN None ELSE raw

\* Variant: only leading whitespace is stripped
_clean_env_value_LStripOnly(raw) ==
    IF raw = None THEN None
    ELSE LET stripped == LStrip(raw) IN IF stripped = <<>> THEN None ELSE stripped

\* Variant: the value is not stripped at all
_clean_env_value_NoStrip(raw) ==
    IF raw = None \/ raw = <<>> THEN None ELSE raw

\* _clean_env_value
_clean_env_value(raw) ==
    IF raw = None THEN None
    ELSE LET stripped == Strip(raw) IN IF stripped = <<>> THEN None ELSE stripped

Truthy(v) == v # None /\ v # <<>>

UrlValues == {None, <<>>, <<" ">>, <<" ", "u">>}
HeadlessValues == {None, <<" ">>, <<"h", " ">>}
ProxyValues == {None, <<>>, <<"p">>}

Virtual == <<"v", "i", "r", "t", "u", "a", "l">>

\* ------------------------------------------------------------- filesystem
\* cookies_dir().resolve()
cookies_root == << <<"c">> >>

NoLink == << <<"<NoLink>">> >>

\* Directory entries: regular files and symbolic links (link = resolved target)
EntryPool ==
    { [name |-> <<"a", ".", "j", "s", "o", "n">>, link |-> NoLink],
      [name |-> <<"B", ".", "J", "S", "O", "N">>, link |-> NoLink],
      [name |-> <<"n", ".", "t", "x", "t">>, link |-> NoLink],
      [name |-> <<"x", ".", "j", "s", "o", "n">>, link |-> << <<"e">>, <<"p">> >>],
      [name |-> <<"u", ".", "j", "s", "o", "n">>, link |-> <<>>],
      [name |-> <<"s", ".", "j", "s", "o", "n">>, link |-> cookies_root] }

Distinct(s) == \A m, n \in 1..Len(s) : m # n => s[m] # s[n]

Listings ==
    UNION { {s \in [1..n -> EntryPool] : Distinct(s)} : n \in 0..MaxEntries }

\* os.listdir: entry names in enumeration order
ListDir(entries) == [n \in 1..Len(entries) |-> entries[n].name]

\* (cookies_root / cookie_candidate).resolve()
Resolve(entries, root, candidate) ==
    LET hits == {n \in 1..Len(entries) : entries[n].name = candidate}
    IN IF candidate = <<".">> \/ candidate = <<>> THEN root
       ELSE IF candidate = <<".", ".">> THEN SubSeq(root, 1, Len(root) - 1)
       ELSE IF hits # {} /\ entries[CHOOSE n \in hits : TRUE].link # NoLink
            THEN entries[CHOOSE n \in hits : TRUE].link
       ELSE Append(root, candidate)

\* PurePath.parents: the proper ancestors
Parents(p) == {SubSeq(p, 1, n) : n \in 0..(Len(p) - 1)}

\* ------------------------------------------------------------------ dicts
DictUpdate(d, e) ==
    [k \in (DOMAIN d) \cup (DOMAIN e) |-> IF k \in DOMAIN e THEN e[k] ELSE d[k]]

\* ----------------------------------------------------------------- state
VARIABLES
    env,                \* os.environ: CAMOUFOX_INSTANCE_URL, _HEADLESS, _PROXY
    fs,                 \* the cookies directory: exists, entries
    pc,                 \* position of main
    global_settings,    \* main: global_settings
    instance_profiles,  \* main: instance_profiles
    i,                  \* main: loop index of enumerate(instance_profiles, 1)
    processes,          \* main: processes, with each handle's state
    j,                  \* index of the handle a join/terminate loop is at
    log,                \* messages written to the logger
    now,                \* seconds main has spent in time.sleep
    intAt               \* where main was (pc, j) when each KeyboardInterrupt arrived

vars == <<env, fs, pc, global_settings, instance_profiles, i, processes, j,
          log, now, intAt>>

\* Variant: the profile dicts carry the file name under another key
load_instances_from_env_CookieKey(e, dir, scanRaises) ==
    LET shared_url == _clean_env_value(e.url)
        headless == _clean_env_value(e.headless)
        proxy_value == _clean_env_value(e.proxy)
        base == [k \in {"headless", "url"} |->
                    IF k = "url" THEN shared_url
                    ELSE IF Truthy(headless) THEN headless ELSE Virtual]
        settings == IF Truthy(proxy_value)
                    THEN DictUpdate(base, [k \in {"proxy"} |-> proxy_value])
                    ELSE base
        cookie_files == SelectSeq(ListDir(dir.entries), IsJsonName)
        fail(msg) == [settings |-> NoneSettings, profiles |-> NoneProfiles,
                      logs |-> <<msg>>]
    IN IF ~Truthy(shared_url) THEN fail("error: missing CAMOUFOX_INSTANCE_URL")
       ELSE IF scanRaises THEN fail("error: scanning cookies directory")
       ELSE IF ~dir.exists THEN fail("error: cookies directory does not exist")
       ELSE IF cookie_files = <<>> THEN fail("error: no .json cookie file found")
       ELSE [settings |-> settings,
             profiles |-> [n \in 1..Len(cookie_files) |->
                              [k \in {"cookie"} |-> cookie_files[n]]],
             logs |-> <<"info: cookie files found", "info: shared url">>]

\* load_instances_from_env: the returned pair and the messages logged
load_instances_from_env(e, dir, scanRaises) ==
    LET shared_url == _clean_env_value(e.url)
        headless == _clean_env_value(e.headless)
        proxy_value == _clean_env_value(e.proxy)
        base == [k \in {"headless", "url"} |->
                    IF k = "url" THEN shared_url
                    ELSE IF Truthy(headless) THEN headless ELSE Virtual]
        settings == IF Truthy(proxy_value)
                    THEN DictUpdate(base, [k \in {"proxy"} |-> proxy_value])
                    ELSE base
        cookie_files == SelectSeq(ListDir(dir.entries), IsJsonName)
        fail(msg) == [settings |-> NoneSettings, profiles |-> NoneProfiles,
                      logs |-> <<msg>>]
    IN IF ~Truthy(shared_url) THEN fail("error: missing CAMOUFOX_INSTANCE_URL")
       ELSE IF scanRaises THEN fail("error: scanning cookies directory")
       ELSE IF ~dir.exists THEN fail("error: cookies directory does not exist")
       ELSE IF cookie_files = <<>> THEN fail("error: no .json cookie file found")
       ELSE [settings |-> settings,
             profiles |-> [n \in 1..Len(cookie_files) |->
                              [k \in {"cookie_file"} |-> cookie_files[n]]],
             logs |-> <<"info: cookie files found", "info: shared url">>]

\* `not instance_profiles`
Falsy(profiles) == profiles = NoneProfiles \/ profiles = <<>>

\* Object identities of dicts: global_settings is object 0, the copy made in
\* the n-th loop iteration is object n
GlobalRef == 0

\* Variant: no copy is made, final_config is global_settings itself
DictCopy_Alias(ref, fresh) == ref

\* main, line 83: dict.copy() returns a new object
DictCopy(ref, fresh) == fresh

\* main, line 84: final_config.update(profile) changes global_settings only
\* when final_config is that very object
SettingsAfterUpdate(ref, settings, profile) ==
    IF ref = GlobalRef THEN DictUpdate(settings, profile) ELSE settings

\* main, lines 83-84
FinalConfig(settings, profile) == DictUpdate(settings, profile)

\* main, line 105: the containment test on the resolved path
Outside(root, resolved_cookie) ==
    root \notin Parents(resolved_cookie) /\ resolved_cookie # root

\* main, lines 86-109: the verdict on one merged configuration
Validate(final_config, dir) ==
    IF "cookie_file" \notin DOMAIN final_config \/ "url" \notin DOMAIN final_config
    THEN "warning: skipped, cookie_file or url missing"
    ELSE LET cookie_candidate == final_config["cookie_file"] IN
         IF Basename(cookie_candidate) # cookie_candidate
         THEN "error: cookie_file must be a bare file name"
         ELSE IF ~IsJsonName(cookie_candidate)
         THEN "error: cookie_file must be a .json file"
         ELSE IF Outside(cookies_root,
                         Resolve(dir.entries, cookies_root, cookie_candidate))
         THEN "error: cookie_file must be inside cookies/"
         ELSE "ok"

\* Variant: the comparison is off by one
NotLastProfile_OffByOne(n, profiles) == n < Len(profiles) - 1

\* main, line 117
NotLastProfile(n, profiles) == n < Len(profiles)

Ended == pc \in {"returned", "raised"}

Init ==
    /\ env \in [url : UrlValues, headless : HeadlessValues, proxy : ProxyValues]
    /\ fs \in {[exists |-> TRUE, entries |-> l] : l \in Listings}
              \cup {[exists |-> FALSE, entries |-> <<>>]}
    /\ pc = "start"
    /\ global_settings = NoneSettings
    /\ instance_profiles = NoneProfiles
    /\ i = 0
    /\ processes = <<>>
    /\ j = 0
    /\ log = <<>>
    /\ now = 0
    /\ intAt = <<>>

\* main, lines 68-74: the directories are created, the logger is set up
Startup ==
    /\ pc = "start"
    /\ fs' = [fs EXCEPT !.exists = TRUE]
    /\ log' = Append(log, "info: manager starting")
    /\ pc' = "load"
    /\ UNCHANGED <<env, global_settings, instance_profiles, i, processes, j,
                   now, intAt>>

\* The cookies directory is removed by another program before the scan
RemoveDir ==
    /\ pc = "load"
    /\ fs.exists
    /\ fs' = [exists |-> FALSE, entries |-> <<>>]
    /\ UNCHANGED <<env, pc, global_settings, instance_profiles, i, processes,
                   j, log, now, intAt>>

\* main, lines 76-81
LoadInstances ==
    /\ pc = "load"
    /\ \E scanRaises \in BOOLEAN :
         LET r == load_instances_from_env(env, fs, scanRaises) IN
         /\ global_settings' = r.settings
         /\ instance_profiles' = r.profiles
         /\ IF Falsy(r.profiles)
            THEN /\ log' = log \o r.logs \o <<"error: no instance configuration">>
                 /\ pc' = "returned"
                 /\ i' = i
            ELSE /\ log' = log \o r.logs
                 /\ pc' = "loop"
                 /\ i' = 1
    /\ UNCHANGED <<env, fs, processes, j, now, intAt>>

\* Variant: a rejected profile ends the loop (break for continue)
SkipProfile_Breaks ==
    /\ pc = "loop"
    /\ i <= Len(instance_profiles)
    /\ LET verdict == Validate(FinalConfig(global_settings, instance_profiles[i]), fs)
       IN /\ verdict # "ok"
          /\ log' = Append(log, verdict)
    /\ global_settings' = SettingsAfterUpdate(DictCopy(GlobalRef, i),
                                 global_settings, instance_profiles[i])
    /\ i' = Len(instance_profiles) + 1
    /\ UNCHANGED <<env, fs, pc, instance_profiles, processes, j, now, intAt>>

\* main, lines 82-109: the profile is rejected, the loop continues
SkipProfile ==
    /\ pc = "loop"
    /\ i <= Len(instance_profiles)
    /\ LET verdict == Validate(FinalConfig(global_settings, instance_profiles[i]), fs)
       IN /\ verdict # "ok"
          /\ log' = Append(log, verdict)
    /\ global_settings' = SettingsAfterUpdate(DictCopy(GlobalRef, i),
                                 global_settings, instance_profiles[i])
    /\ i' = i + 1
    /\ UNCHANGED <<env, fs, pc, instance_profiles, processes, j, now, intAt>>

\* Variant: a failure of process.start() is swallowed, the loop goes on
SpawnProfile_SwallowsFailure ==
    /\ pc = "loop"
    /\ i <= Len(instance_profiles)
    /\ LET final_config == FinalConfig(global_settings, instance_profiles[i]) IN
       /\ Validate(final_config, fs) = "ok"
       /\ \E startRaises \in BOOLEAN :
            IF startRaises
            THEN /\ processes' = Append(processes,
                        [config |-> final_config, status |-> "initial",
                         config_ref |-> DictCopy(GlobalRef, i),
                         signaled |-> FALSE, started_at |-> now])
                 /\ log' = Append(log, "info: starting instance")
                 /\ pc' = "loop"
                 /\ i' = i + 1
            ELSE /\ processes' = Append(processes,
                        [config |-> final_config, status |-> "running",
                         config_ref |-> DictCopy(GlobalRef, i),
                         signaled |-> FALSE, started_at |-> now])
                 /\ IF NotLastProfile(i, instance_profiles)
                    THEN /\ log' = log \o <<"info: starting instance",
                                            "info: waiting 30 seconds">>
                         /\ pc' = "pacing"
                         /\ i' = i
                    ELSE /\ log' = Append(log, "info: starting instance")
                         /\ pc' = "loop"
                         /\ i' = i + 1
       /\ global_settings' = SettingsAfterUpdate(DictCopy(GlobalRef, i),
                                    global_settings, instance_profiles[i])
    /\ UNCHANGED <<env, fs, instance_profiles, j, now, intAt>>

\* Variant: a failure of process.start() starts the termination sweep over
\* the tracked handles
SpawnProfile_CleansUpOnFailure ==
    /\ pc = "loop"
    /\ i <= Len(instance_profiles)
    /\ LET final_config == FinalConfig(global_settings, instance_profiles[i]) IN
       /\ Validate(final_config, fs) = "ok"
       /\ \E startRaises \in BOOLEAN :
            IF startRaises
            THEN /\ processes' = Append(processes,
                        [config |-> final_config, status |-> "initial",
                         config_ref |-> DictCopy(GlobalRef, i),
                         signaled |-> FALSE, started_at |-> now])
                 /\ log' = Append(log, "info: starting instance")
                 /\ pc' = "terminate"
                 /\ i' = i
                 /\ j' = 1
            ELSE /\ j' = j
                 /\ processes' = Append(processes,
                        [config |-> final_config, status |-> "running",
                         config_ref |-> DictCopy(GlobalRef, i),
                         signaled |-> FALSE, started_at |-> now])
                 /\ IF NotLastProfile(i, instance_profiles)
                    THEN /\ log' = log \o <<"info: starting instance",
                                            "info: waiting 30 seconds">>
                         /\ pc' = "pacing"
                         /\ i' = i
                    ELSE /\ log' = Append(log, "info: starting instance")
                         /\ pc' = "loop"
                         /\ i' = i + 1
       /\ global_settings' = SettingsAfterUpdate(DictCopy(GlobalRef, i),
                                    global_settings, instance_profiles[i])
    /\ UNCHANGED <<env, fs, instance_profiles, now, intAt>>

\* main, lines 82-119: the profile is accepted and its process is started
SpawnProfile ==
    /\ pc = "loop"
    /\ i <= Len(instance_profiles)
    /\ LET final_config == FinalConfig(global_settings, instance_profiles[i]) IN
       /\ Validate(final_config, fs) = "ok"
       /\ \E startRaises \in BOOLEAN :
            IF startRaises
            THEN /\ processes' = Append(processes,
                        [config |-> final_config, status |-> "initial",
                         config_ref |-> DictCopy(GlobalRef, i),
                         signaled |-> FALSE, started_at |-> now])
                 /\ log' = Append(log, "info: starting instance")
                 /\ pc' = "raised"
                 /\ i' = i
            ELSE /\ processes' = Append(processes,
                        [config |-> final_config, status |-> "running",
                         config_ref |-> DictCopy(GlobalRef, i),
                         signaled |-> FALSE, started_at |-> now])
                 /\ IF NotLastProfile(i, instance_profiles)
                    THEN /\ log' = log \o <<"info: starting instance",
                                            "info: waiting 30 seconds">>
                         /\ pc' = "pacing"
                         /\ i' = i
                    ELSE /\ log' = Append(log, "info: starting instance")
                         /\ pc' = "loop"
                         /\ i' = i + 1
       /\ global_settings' = SettingsAfterUpdate(DictCopy(GlobalRef, i),
                                    global_settings, instance_profiles[i])
    /\ UNCHANGED <<env, fs, instance_profiles, j, now, intAt>>

\* main, line 119: time.sleep(30) returns
PacingDone ==
    /\ pc = "pacing"
    /\ now' = now + PacingSeconds
    /\ i' = i + 1
    /\ pc' = "loop"
    /\ UNCHANGED <<env, fs, global_settings, instance_profiles, processes, j,
                   log, intAt>>

\* Variant: no test for an empty handle list; the join loop over no handle
\* ends at once
NothingStarted_NoCheck ==
    /\ pc = "loop"
    /\ i > Len(instance_profiles)
    /\ processes = <<>>
    /\ log' = Append(log, "info: all instances started")
    /\ pc' = "returned"
    /\ UNCHANGED <<env, fs, global_settings, instance_profiles, i, processes,
                   j, now, intAt>>

\* main, lines 121-123: nothing was started
NothingStarted ==
    /\ pc = "loop"
    /\ i > Len(instance_profiles)
    /\ processes = <<>>
    /\ log' = Append(log, "error: no valid instance configuration")
    /\ pc' = "returned"
    /\ UNCHANGED <<env, fs, global_settings, instance_profiles, i, processes,
                   j, now, intAt>>

\* main, lines 125-128: the join loop is entered
AllStarted ==
    /\ pc = "loop"
    /\ i > Len(instance_profiles)
    /\ processes # <<>>
    /\ log' = Append(log, "info: all instances started")
    /\ pc' = "join"
    /\ j' = 1
    /\ UNCHANGED <<env, fs, global_settings, instance_profiles, i, processes,
                   now, intAt>>

\* Variant: the join does not wait for the process to exit
Join_NoWait ==
    /\ pc = "join"
    /\ IF j = Len(processes)
       THEN pc' = "returned" /\ j' = j
       ELSE pc' = "join" /\ j' = j + 1
    /\ UNCHANGED <<env, fs, global_settings, instance_profiles, i, processes,
                   log, now, intAt>>

\* Variant: a handle is sent the termination signal once it was joined
Join_ThenTerminate ==
    /\ pc = "join"
    /\ processes[j].status = "exited"
    /\ processes' = [processes EXCEPT ![j].signaled = TRUE]
    /\ IF j = Len(processes)
       THEN pc' = "returned" /\ j' = j
       ELSE pc' = "join" /\ j' = j + 1
    /\ UNCHANGED <<env, fs, global_settings, instance_profiles, i, log, now,
                   intAt>>

\* main, lines 128-129: process.join() returns once the process has exited
Join ==
    /\ pc = "join"
    /\ processes[j].status = "exited"
    /\ IF j = Len(processes)
       THEN pc' = "returned" /\ j' = j
       ELSE pc' = "join" /\ j' = j + 1
    /\ UNCHANGED <<env, fs, global_settings, instance_profiles, i, processes,
                   log, now, intAt>>

\* Variant: only a handle that is still alive is signaled
SweepTerminate_OnlyAlive ==
    /\ pc = "terminate"
    /\ processes' = [processes EXCEPT
                        ![j].signaled = (processes[j].status = "running")]
    /\ pc' = "terminate_join"
    /\ UNCHANGED <<env, fs, global_settings, instance_profiles, i, j, log, now,
                   intAt>>

\* main, lines 132-133: process.terminate()
SweepTerminate ==
    /\ pc = "terminate"
    /\ processes' = [processes EXCEPT ![j].signaled = TRUE]
    /\ pc' = "terminate_join"
    /\ UNCHANGED <<env, fs, global_settings, instance_profiles, i, j, log, now,
                   intAt>>

\* Variant: the join of the sweep gives up after a timeout
SweepJoin_Timeout ==
    /\ pc = "terminate_join"
    /\ IF j = Len(processes)
       THEN /\ pc' = "returned"
            /\ j' = j
            /\ log' = Append(log, "info: all processes terminated")
       ELSE /\ pc' = "terminate"
            /\ j' = j + 1
            /\ log' = log
    /\ UNCHANGED <<env, fs, global_settings, instance_profiles, i, processes,
                   now, intAt>>

\* main, lines 134-135: process.join() of the sweep
SweepJoin ==
    /\ pc = "terminate_join"
    /\ processes[j].status = "exited"
    /\ IF j = Len(processes)
       THEN /\ pc' = "returned"
            /\ j' = j
            /\ log' = Append(log, "info: all processes terminated")
       ELSE /\ pc' = "terminate"
            /\ j' = j + 1
            /\ log' = log
    /\ UNCHANGED <<env, fs, global_settings, instance_profiles, i, processes,
                   now, intAt>>

\* try/except KeyboardInterrupt, lines 127-131: the statements the try covers
InTry(p) == p = "join"

\* KeyboardInterrupt is raised in main at its current position
Interrupt ==
    /\ ~Ended
    /\ intAt' = Append(intAt, [at |-> pc, j |-> j])
    /\ IF InTry(pc)
       THEN /\ pc' = "terminate"
            /\ j' = 1
            /\ log' = Append(log, "info: caught Ctrl+C, terminating children")
       ELSE /\ pc' = "raised"
            /\ j' = j
            /\ log' = log
    /\ UNCHANGED <<env, fs, global_settings, instance_profiles, i, processes, now>>

\* run_browser_instance ends: the worker process exits
WorkerExit(w) ==
    /\ processes[w].status = "running"
    /\ processes' = [processes EXCEPT ![w].status = "exited"]
    /\ UNCHANGED <<env, fs, pc, global_settings, instance_profiles, i, j, log,
                   now, intAt>>

Next ==
    \/ Startup
    \/ RemoveDir
    \/ LoadInstances
    \/ SkipProfile
    \/ SpawnProfile
    \/ PacingDone
    \/ NothingStarted
    \/ AllStarted
    \/ Join
    \/ SweepTerminate
    \/ SweepJoin
    \/ Interrupt
    \/ \E w \in 1..Len(processes) : WorkerExit(w)

Spec == Init /\ [][Next]_vars

\* main keeps running its sweep; a worker sent the termination signal exits
LiveSpec ==
    /\ Spec
    /\ WF_vars(SweepTerminate)
    /\ WF_vars(SweepJoin)
    /\ \A w \in 1..(MaxEntries + 1) :
          WF_vars(w <= Len(processes) /\ processes[w].signaled /\ WorkerExit(w))

\* main goes on from the launch loop into its join loop; every worker exits
JoinSpec ==
    /\ Spec
    /\ WF_vars(AllStarted)
    /\ WF_vars(Join)
    /\ \A w \in 1..(MaxEntries + 1) :
          WF_vars(w <= Len(processes) /\ WorkerExit(w))

\* ------------------------------------------------------ derived notions
Range(s) == {s[n] : n \in 1..Len(s)}

\* The launch loop ran through every profile
LoopDone ==
    /\ pc \notin {"start", "load"}
    /\ ~Falsy(instance_profiles)
    /\ i > Len(instance_profiles)

\* Handles whose process.start() succeeded
Started == SelectSeq(processes, LAMBDA p : p.status # "initial")

CookieFiles(ps) == [n \in 1..Len(ps) |-> ps[n].config["cookie_file"]]

ScannedNames == SelectSeq(ListDir(fs.entries), IsJsonName)

Passes(name) ==
    Validate(FinalConfig(global_settings, [k \in {"cookie_file"} |-> name]), fs) = "ok"

AllSignaledAndExited ==
    \A w \in 1..Len(processes) :
        processes[w].signaled /\ processes[w].status = "exited"

InSweep == pc \in {"terminate", "terminate_join"}

\* ------------------------------------------------------------------ C1
\* C1: an interrupt that arrives during the pacing delay (a worker already
\* spawned) takes main into the termination sweep: main is then signalling
\* and waiting, and it ends only by returning with every spawned worker
\* signaled and exited.
C1_InterruptWhilePacingSweeps ==
    (intAt # <<>> /\ intAt[1].at = "pacing") =>
        /\ InSweep \/ pc = "returned"
        /\ pc = "returned" => AllSignaledAndExited

\* ------------------------------------------------------------------ C2
\* The sweep after a single interrupt in the join loop: the handles before
\* the current one are signaled and exited, the one waited for is signaled
C2_SweepInvariant ==
    (Len(intAt) = 1 /\ intAt[1].at = "join") =>
        /\ InSweep \/ pc = "returned"
        /\ \A w \in 1..Len(processes) :
              (w < j \/ pc = "returned") =>
                  processes[w].signaled /\ processes[w].status = "exited"
        /\ pc = "terminate_join" => processes[j].signaled

\* C2: after an interrupt that arrived in the join loop with K tracked
\* workers, the sweep goes through the handles in order, signalling each one
\* (exited or not) and waiting for it; main has returned only with all K
\* signaled and all K exited, and, every signaled worker exiting, main does
\* end (by returning, unless a further interrupt arrives).
C2_InterruptWhileJoiningSweepsAll ==
    /\ []C2_SweepInvariant
    /\ (Len(intAt) = 1 /\ intAt[1].at = "join") ~> Ended

\* A sweep after an interrupt that arrived when the first join had already
\* completed has returned, with two or more workers
C2_Witness ==
    /\ Len(intAt) = 1
    /\ intAt[1].at = "join"
    /\ intAt[1].j >= 2
    /\ Len(processes) >= 2
    /\ pc = "returned"
    /\ AllSignaledAndExited

\* ------------------------------------------------------------------ C3
\* C3: in the termination sweep every tracked handle has been sent the
\* termination signal before main waits for any handle to exit.
C3_SignalAllBeforeWaiting ==
    pc = "terminate_join" => \A w \in 1..Len(processes) : processes[w].signaled

\* ------------------------------------------------------------------ C4
\* C4: when the scan yields N profiles that all pass validation and the
\* launch loop has run through them, exactly N processes were started, the
\* n-th for the n-th profile, no profile twice, each with url equal to the
\* trimmed shared endpoint and cookie_file equal to its profile.
C4_OneWorkerPerValidProfile ==
    (LoopDone /\ \A n \in 1..Len(ScannedNames) : Passes(ScannedNames[n])) =>
        /\ Len(Started) = Len(ScannedNames)
        /\ Started = processes
        /\ Distinct(CookieFiles(processes))
        /\ \A n \in 1..Len(processes) :
              /\ processes[n].config["cookie_file"] = ScannedNames[n]
              /\ processes[n].config["url"] = Strip(env.url)

\* Two regular credential files next to an entry the scan leaves out
C4_Witness ==
    /\ LoopDone
    /\ Len(fs.entries) = 3
    /\ Len(ScannedNames) = 2
    /\ \A n \in 1..Len(fs.entries) : fs.entries[n].link = NoLink
    /\ \A n \in 1..Len(ScannedNames) : Passes(ScannedNames[n])
    /\ Len(processes) = 2
    /\ env.url # Strip(env.url)

\* ------------------------------------------------------------------ C5
\* C5: between the starts of two consecutively spawned workers lies a
\* complete pacing delay, wherever rejected profiles sit in the list.
C5_PacedSpawns ==
    \A n \in 1..(Len(Started) - 1) :
        Started[n + 1].started_at - Started[n].started_at >= PacingSeconds

\* Two workers spawned around a rejected profile
C5_Witness ==
    /\ LoopDone
    /\ Len(instance_profiles) = 3
    /\ ~Passes(instance_profiles[2]["cookie_file"])
    /\ Len(Started) = 2

\* ------------------------------------------------------------------ C6
\* C6: main does not sleep after the last worker it spawns: when the launch
\* loop is over, no time has passed since the last spawn.
C6_NoPacingAfterLastSpawn ==
    (LoopDone /\ Started # <<>>) => now = Started[Len(Started)].started_at

\* ------------------------------------------------------------------ C7
\* C7: the started workers are, in order, the profiles that pass validation:
\* at every moment a prefix of that subsequence, and all of it once the
\* launch loop is over.
C7_SpawnedIsValidSubsequence ==
    pc \notin {"start", "load"} /\ ~Falsy(instance_profiles) =>
        LET valid == SelectSeq(ScannedNames, Passes)
            spawned == CookieFiles(Started)
        IN /\ Len(spawned) <= Len(valid)
           /\ spawned = SubSeq(valid, 1, Len(spawned))
           /\ LoopDone => spawned = valid

\* A rejected profile first, then accepted ones, all spawned
C7_Witness ==
    /\ LoopDone
    /\ Len(instance_profiles) = 3
    /\ ~Passes(instance_profiles[1]["cookie_file"])
    /\ Len(Started) = 2

\* ------------------------------------------------------------------ C8
\* C8: every spawned worker's credential file resolves to a proper
\* descendant of the resolved profiles directory.
C8_SpawnedStrictlyInside ==
    \A w \in 1..Len(Started) :
        cookies_root \in
            Parents(Resolve(fs.entries, cookies_root,
                            Started[w].config["cookie_file"]))

\* ------------------------------------------------------------------ C9
\* C9: if every discovered profile is rejected, nothing is spawned, main
\* never joins or signals, and without an interrupt it ends by returning
\* after logging the configuration error.
C9_AllRejected ==
    (LoopDone /\ \A n \in 1..Len(ScannedNames) : ~Passes(ScannedNames[n])) =>
        /\ processes = <<>>
        /\ pc \in {"loop", "returned", "raised"}
        /\ (Ended /\ intAt = <<>>) =>
              /\ pc = "returned"
              /\ log[Len(log)] = "error: no valid instance configuration"

C9_Witness ==
    /\ LoopDone
    /\ Len(ScannedNames) >= 2
    /\ \A n \in 1..Len(ScannedNames) : ~Passes(ScannedNames[n])
    /\ pc = "returned"
    /\ intAt = <<>>

\* ----------------------------------------------------------------- C10
\* C10: on a configuration error (shared endpoint unset, empty or blank;
\* cookies directory missing; no .json entry) nothing is spawned and,
\* without an interrupt, main has returned with the reason logged.
C10_ConfigErrorHalts ==
    LET noUrl == env.url = None \/ Strip(env.url) = <<>>
        noDir == ~fs.exists
        noJson == \A n \in 1..Len(fs.entries) : ~IsJsonName(fs.entries[n].name)
        scanMsg == "error: scanning cookies directory"
    IN (pc \notin {"start", "load"} /\ (noUrl \/ noDir \/ noJson)) =>
        /\ processes = <<>>
        /\ Ended
        /\ intAt = <<>> =>
              /\ pc = "returned"
              /\ log[Len(log)] = "error: no instance configuration"
              /\ noUrl => "error: missing CAMOUFOX_INSTANCE_URL" \in Range(log)
              /\ (~noUrl /\ noDir) =>
                    Range(log) \cap {"error: cookies directory does not exist",
                                     scanMsg} # {}
              /\ (~noUrl /\ ~noDir /\ noJson) =>
                    Range(log) \cap {"error: no .json cookie file found",
                                     scanMsg} # {}

\* A blank shared endpoint with a valid credential file present
C10_Witness ==
    /\ pc = "returned"
    /\ intAt = <<>>
    /\ env.url = <<" ">>
    /\ fs.exists
    /\ \E n \in 1..Len(fs.entries) : IsJsonName(fs.entries[n].name)
    /\ "error: missing CAMOUFOX_INSTANCE_URL" \in Range(log)

\* ----------------------------------------------------------------- C13
\* C13: building the per-profile configurations leaves global_settings as
\* loaded (no cookie_file key), and every handle holds a configuration
\* object of its own: not global_settings, not another handle's.
C13_SettingsUntouchedConfigsUnshared ==
    (pc \notin {"start", "load"} /\ ~Falsy(instance_profiles)) =>
        /\ global_settings = load_instances_from_env(env, fs, FALSE).settings
        /\ "cookie_file" \notin DOMAIN global_settings
        /\ \A m \in 1..Len(processes) :
              /\ processes[m].config_ref # GlobalRef
              /\ \A n \in 1..Len(processes) :
                    m # n => processes[m].config_ref # processes[n].config_ref

\* Three launch attempts, one of them rejected, two workers started
C13_Witness ==
    /\ LoopDone
    /\ Len(instance_profiles) = 3
    /\ Len(Started) = 2
    /\ Started[1].config_ref # Started[2].config_ref
    /\ "proxy" \in DOMAIN global_settings

\* ----------------------------------------------------------------- C11
\* In the join loop the handles before the current one have exited, and
\* without an interrupt main has returned only with every handle exited
C11_JoinInvariant ==
    /\ pc = "join" => \A w \in 1..(j - 1) : processes[w].status = "exited"
    /\ (pc = "returned" /\ intAt = <<>> /\ processes # <<>>) =>
          \A w \in 1..Len(processes) : processes[w].status = "exited"

\* C11: with no interrupt, once the launch loop is over with a worker
\* started, main returns only after every tracked worker has exited, and,
\* every worker exiting in whatever order, main does return.
C11_ReturnsAfterAllExit ==
    /\ []C11_JoinInvariant
    /\ (LoopDone /\ Started # <<>>) ~> (pc = "returned" \/ intAt # <<>>)

\* main has returned from the join loop over three workers, uninterrupted
C11_Witness ==
    /\ pc = "returned"
    /\ intAt = <<>>
    /\ Len(processes) = 3
    /\ \A w \in 1..3 : processes[w].status = "exited"

\* ----------------------------------------------------------------- C12
\* An environment value that is unset, empty or blank
Absent(raw) == raw = None \/ Strip(raw) = <<>>

\* C12: every spawned configuration has headless "virtual" and no proxy key
\* when the corresponding environment value is unset, empty or blank, has
\* the trimmed environment values otherwise, and never has an empty url.
C12_EnvDefaultsAndTrim ==
    \A w \in 1..Len(processes) :
        LET config == processes[w].config IN
        /\ config["headless"] =
              IF Absent(env.headless) THEN Virtual ELSE Strip(env.headless)
        /\ Absent(env.proxy) => "proxy" \notin DOMAIN config
        /\ ~Absent(env.proxy) =>
              "proxy" \in DOMAIN config /\ config["proxy"] = Strip(env.proxy)
        /\ config["url"] # <<>>
        /\ config["url"] # None

\* A worker started under a blank headless value and an empty proxy value
C12_Witness ==
    /\ env.headless = <<" ">>
    /\ env.proxy = <<>>
    /\ Started # <<>>
    /\ Started[1].config["headless"] = Virtual
    /\ DOMAIN Started[1].config = {"headless", "url", "cookie_file"}

\* ----------------------------------------------------------------- C14
\* C14: a handle whose process.start() failed is the last handle main ever
\* tracked and main has ended by raising: no further spawn is attempted and
\* main is never in its join loop or sweep with that handle.
C14_StartFailureNotSwallowed ==
    \A w \in 1..Len(processes) :
        processes[w].status = "initial" =>
            /\ pc = "raised"
            /\ w = Len(processes)
            /\ i <= Len(instance_profiles)
            /\ instance_profiles[i]["cookie_file"] = processes[w].config["cookie_file"]

\* The second start failed with a worker running and a profile still to go
C14_Witness ==
    /\ Len(processes) = 2
    /\ processes[1].status = "running"
    /\ processes[2].status = "initial"
    /\ i < Len(instance_profiles)
    /\ intAt = <<>>

\* ----------------------------------------------------------------- C18
\* C18: a handle that was appended but never started is never signaled, and
\* main is in its join loop or in its sweep only with handles that were all
\* started.
C18_OnlyStartedJoinedOrSignaled ==
    /\ \A w \in 1..Len(processes) :
          processes[w].signaled => processes[w].status # "initial"
    /\ (pc = "join" \/ InSweep) =>
          \A w \in 1..Len(processes) : processes[w].status # "initial"

\* The sweep went over three started handles from the first one on
C18_Witness ==
    /\ pc = "returned"
    /\ Len(intAt) = 1
    /\ intAt[1].j = 1
    /\ Len(processes) = 3
    /\ \A w \in 1..3 : processes[w].signaled /\ processes[w].status = "exited"

\* ----------------------------------------------------------------- C15
\* While the handle the sweep waits for has not exited, main stays in that
\* wait (or is ended by a further interrupt)
C15_WaitHolds ==
    (pc = "terminate_join" /\ processes[j].status # "exited") =>
        /\ pc' \in {"terminate_join", "raised"}
        /\ j' = j

\* C15: the wait of the sweep has no timeout: as long as a tracked worker
\* has not exited, main does not get past the wait for it, and after an
\* interrupt main has not returned while some tracked worker has not exited.
C15_NoTimeoutInSweep ==
    /\ []((intAt # <<>> /\ \E w \in 1..Len(processes) :
                              processes[w].status # "exited") => pc # "returned")
    /\ [][C15_WaitHolds]_vars

\* main waits for a signaled worker that has not exited, with a later worker
\* not yet signaled
C15_Witness ==
    /\ pc = "terminate_join"
    /\ processes[j].signaled
    /\ processes[j].status = "running"
    /\ j < Len(processes)
    /\ ~processes[j + 1].signaled
    /\ processes[j + 1].status = "running"

\* ----------------------------------------------------------------- C16
\* C16: once the termination sweep has started, main stays in the sweep
\* until it returns, whatever further interrupt arrives, and it returns with
\* every tracked handle signaled and exited: no exception escapes.
C16_SweepSurvivesInterrupt ==
    (intAt # <<>> /\ intAt[1].at = "join") =>
        /\ pc # "raised"
        /\ pc = "returned" => AllSignaledAndExited

\* ----------------------------------------------------------------- C17
\* C17: as long as no interrupt was received, no handle has been sent a
\* termination signal.
C17_NoSignalWithoutInterrupt ==
    intAt = <<>> => \A w \in 1..Len(processes) : ~processes[w].signaled

\* A later worker exited while main still waits for the first, uninterrupted
C17_Witness ==
    /\ intAt = <<>>
    /\ pc = "join"
    /\ j = 1
    /\ Len(processes) = 2
    /\ processes[1].status = "running"
    /\ processes[2].status = "exited"
    /\ ~processes[2].signaled

\* ----------------------------------------------------------------- C19
MissingKeysSkip == "warning: skipped, cookie_file or url missing"

\* C19: the skip for a missing cookie_file or url is never taken: settings
\* and profile list are returned both or neither, and whenever the launch
\* loop runs every merged configuration has both keys.
C19_MissingKeysSkipUnreachable ==
    /\ MissingKeysSkip \notin Range(log)
    /\ pc \notin {"start", "load"} =>
          /\ (global_settings = NoneSettings) <=> (instance_profiles = NoneProfiles)
          /\ ~Falsy(instance_profiles) =>
                \A n \in 1..Len(instance_profiles) :
                    {"cookie_file", "url"} \subseteq
                        DOMAIN FinalConfig(global_settings, instance_profiles[n])

\* The loop ran over three profiles and took another skip
C19_Witness ==
    /\ LoopDone
    /\ Len(instance_profiles) = 3
    /\ "error: cookie_file must be inside cookies/" \in Range(log)
    /\ Started # <<>>

====
